---- MODULE Spec2Model ----
(***************************************************************************)
(* tasks.whole_genome_shotgun: the three stage functions quality_control,  *)
(* taxonomic_profile and functional_profile, which register tasks and      *)
(* task groups with an anadama2 workflow.                                  *)
(*                                                                         *)
(* A file identifier is a record [dir, base]: dir is the sequence of       *)
(* folder names and base the sequence of dot-separated segments of the     *)
(* file name, so "out/kneaddata/s1.fastq.kneaddata" is                     *)
(* [dir |-> <<"out","kneaddata">>, base |-> <<"s1","fastq","kneaddata">>]. *)
(* A command template is the sequence of its blank-separated words.        *)
(***************************************************************************)
EXTENDS Integers, Sequences, FiniteSets, TLC

VARIABLES workflow, call, outcome, locals, pc, present, ran

vars == <<workflow, call, outcome, locals, pc, present, ran>>

\* ---------------------------------------------------------------- bounds

MaxFiles == 2
MaxDatabases == 2
MaxPrior == 1
MaxChain == 2

\* ---------------------------------------------------------------- helpers

Min(a, b) == IF a < b THEN a ELSE b

Range(s) == {s[i] : i \in DOMAIN s}

SeqsUpTo(S, n) == UNION {[1..k -> S] : k \in 0..n}

\* A Python string naming a file, as an identifier without a folder.
Name(segments) == [dir |-> <<>>, base |-> segments]

SampleNames == <<"s1", "s2", "s3", "s4">>

SampleFile(i) == [dir |-> <<"in">>, base |-> <<SampleNames[i], "fastq">>]

InputFileSet == {SampleFile(1), SampleFile(2)}

ProfileFileSet ==
    {[dir |-> <<"in">>, base |-> <<"p1", "tsv">>],
     [dir |-> <<"in">>, base |-> <<"p2", "tsv">>]}

ThreadSet == {1, 4}

DatabaseNames == {"human", "rrna"}

\* The databases argument: None, a string, or a list of strings.
DatabaseArgs ==
    {[kind |-> "none", val |-> <<>>]}
    \cup {[kind |-> "str", val |-> <<d>>] : d \in DatabaseNames}
    \cup {[kind |-> "list", val |-> l] : l \in SeqsUpTo(DatabaseNames, MaxDatabases)}

\* The taxonomic_profiles argument: None, or a list of files.
NoProfiles == [given |-> FALSE, list |-> <<>>]

ProfileArgs ==
    {NoProfiles}
    \cup {[given |-> TRUE, list |-> l] : l \in SeqsUpTo(ProfileFileSet, MaxFiles + 1)}

\* Auxiliary argument values (a folder, a number, a string).
ArgPath(d) == [kind |-> "path", s |-> d, n |-> 0]
ArgInt(k) == [kind |-> "int", s |-> <<>>, n |-> k]
ArgStr(t) == [kind |-> "str", s |-> <<t>>, n |-> 0]

\* ------------------------------------------------ python built-ins used

\* zip(a, b): pairs up to the shorter argument.
Zip2(a, b) == [i \in 1..Min(Len(a), Len(b)) |-> <<a[i], b[i]>>]

\* zip(a, b, c)
Zip3(a, b, c) ==
    [i \in 1..Min(Len(a), Min(Len(b), Len(c))) |-> <<a[i], b[i], c[i]>>]

\* sep.join(list), as words
RECURSIVE Join(_, _)
Join(sep, list) ==
    IF Len(list) = 0 THEN <<>>
    ELSE IF Len(list) = 1 THEN <<list[1]>>
    ELSE <<list[1], sep>> \o Join(sep, Tail(list))

\* Variant: an empty list yields an empty folder name instead of IndexError.
DirnameOfFirstNoRaise(files) ==
    [raised |-> FALSE, value |-> IF Len(files) = 0 THEN <<>> ELSE files[1].dir]

\* os.path.dirname(files[0]): IndexError on an empty list.
DirnameOfFirst(files) ==
    IF Len(files) = 0 THEN [raised |-> TRUE, value |-> <<>>]
    ELSE [raised |-> FALSE, value |-> files[1].dir]

\* ------------------------------------------- the workflow collaborator

OutputRoot == "out"

\* name_output_files(name=<string>, tag, subfolder, extension); an absent
\* option is <<>>.
NameOutputFile(name, tag, subfolder, extension) ==
    [dir |-> <<OutputRoot>> \o (IF subfolder = <<>> THEN name.dir ELSE subfolder),
     base |-> name.base \o tag \o extension]

\* name_output_files(name=<list>, tag, subfolder, extension)
NameOutputFiles(names, tag, subfolder, extension) ==
    [i \in DOMAIN names |-> NameOutputFile(names[i], tag, subfolder, extension)]

\* A batch of single files as a batch of 1-tuples.
AsTuples(list) == [i \in DOMAIN list |-> <<list[i]>>]

Placeholders ==
    {[tok |-> "[depends[0]]", kind |-> "depends", idx |-> 0],
     [tok |-> "[depends[1]]", kind |-> "depends", idx |-> 1],
     [tok |-> "[targets[0]]", kind |-> "targets", idx |-> 0],
     [tok |-> "[targets[1]]", kind |-> "targets", idx |-> 1],
     [tok |-> "[args[0]]", kind |-> "args", idx |-> 0],
     [tok |-> "[args[1]]", kind |-> "args", idx |-> 1]}

\* Every placeholder of the template resolves for one task.
PlaceholdersResolve(cmd, depends, targets, args) ==
    \A p \in Placeholders :
        p.tok \in Range(cmd) =>
            p.idx < (CASE p.kind = "depends" -> Len(depends)
                       [] p.kind = "targets" -> Len(targets)
                       [] OTHER -> Len(args))

NoResources == <<>>

EmptyWorkflow == [tasks |-> <<>>, groups |-> <<>>]

\* add_task(template, depends, targets, args)
AddTask(wf, cmd, depends, targets, args) ==
    IF ~PlaceholdersResolve(cmd, depends, targets, args)
    THEN [ok |-> FALSE, wf |-> wf]
    ELSE [ok |-> TRUE,
          wf |-> [wf EXCEPT !.tasks = Append(@,
                     [cmd |-> cmd, depends |-> depends, targets |-> targets,
                      args |-> args, res |-> NoResources, group |-> 0])]]

\* add_task_group_gridable(template, depends, targets, args, time, mem, cpus)
AddTaskGroupGridable(wf, cmd, depends, targets, args, res) ==
    IF Len(depends) # Len(targets)
       \/ \E i \in DOMAIN depends :
              ~PlaceholdersResolve(cmd, depends[i], targets[i], args)
    THEN [ok |-> FALSE, wf |-> wf]
    ELSE LET g == Len(wf.groups) + 1
         IN [ok |-> TRUE,
             wf |-> [tasks |-> wf.tasks \o
                        [i \in DOMAIN depends |->
                            [cmd |-> cmd, depends |-> depends[i],
                             targets |-> targets[i], args |-> args,
                             res |-> res, group |-> g]],
                     groups |-> Append(wf.groups,
                        [cmd |-> cmd, ndepends |-> Len(depends),
                         ntargets |-> Len(targets), res |-> res,
                         first |-> Len(wf.tasks) + 1])]]

\* ---------------------------------------------------------- outcomes

Raised(wf) == [status |-> "raised", wf |-> wf, ret |-> <<>>]

Returned(wf, ret) == [status |-> "returned", wf |-> wf, ret |-> ret]

\* ------------------------------------------------------ quality_control

KneaddataCommand ==
    <<"kneaddata", "--input", "[depends[0]]", "--output", "[args[0]]",
      "--threads", "[args[1]]">>

\* The database option string: "" for None, one clause per list entry joined
\* after a leading " --reference-db ", or one clause for a single string.
OptionalDatabaseArgs(databases) ==
    IF databases.kind = "none" THEN <<>>
    ELSE IF databases.kind = "list"
         THEN <<"--reference-db">> \o Join("--reference-db", databases.val)
         ELSE <<"--reference-db">> \o databases.val

\* Variant: cpus fixed at the 8 cores the time and memory are based on.
KneaddataResourcesEightCores(threads) == <<6 * 60, 12 * 1024, 8>>

\* time=6*60, mem=12*1024, cpus=threads
KneaddataResources(threads) == <<6 * 60, 12 * 1024, threads>>

QualityControl(wf, input_files, threads, databases) ==
    LET kneaddata_output_files ==
            NameOutputFiles(input_files, <<"kneaddata">>, <<"kneaddata">>, <<>>)
        kneaddata_output_folder == DirnameOfFirst(kneaddata_output_files)
        optional_database_args == OptionalDatabaseArgs(databases)
        group == AddTaskGroupGridable(wf,
                    KneaddataCommand \o optional_database_args,
                    AsTuples(input_files),
                    AsTuples(kneaddata_output_files),
                    <<ArgPath(kneaddata_output_folder.value), ArgInt(threads)>>,
                    KneaddataResources(threads))
    IN IF kneaddata_output_folder.raised THEN Raised(wf)
       ELSE IF ~group.ok THEN Raised(wf)
       ELSE Returned(group.wf, <<kneaddata_output_files>>)

\* ---------------------------------------------------- taxonomic_profile

Metaphlan2Command ==
    <<"metaphlan2.py", "[depends[0]]", "--input_type", "fastq",
      "--output_file", "[targets[0]]", "--samout", "[targets[1]]",
      "--nproc", "[args[0]]", "--no_map", "--tmp_dir", "[args[1]]">>

Metaphlan2JoinCommand ==
    <<"humann2_join_tables", "--input", "[args[0]]", "--output",
      "[targets[0]]", "--file_name", "[args[1]]">>

\* Variant: the alignment file first, the profile second.
Metaphlan2TargetsSwapped(profile, sam) == Zip2(sam, profile)

\* targets=zip(metaphlan2_output_files_profile, metaphlan2_output_files_sam)
Metaphlan2Targets(profile, sam) == Zip2(profile, sam)

TaxonomicProfile(wf, input_files, threads) ==
    LET metaphlan2_profile_tag == "taxonomic_profile"
        metaphlan2_output_files_profile ==
            NameOutputFiles(input_files, <<metaphlan2_profile_tag>>,
                            <<"metaphlan2">>, <<"tsv">>)
        metaphlan2_output_files_sam ==
            NameOutputFiles(input_files, <<"bowtie2">>, <<"metaphlan2">>, <<"sam">>)
        metaphlan2_output_folder == DirnameOfFirst(metaphlan2_output_files_profile)
        group == AddTaskGroupGridable(wf,
                    Metaphlan2Command,
                    AsTuples(input_files),
                    Metaphlan2Targets(metaphlan2_output_files_profile,
                                      metaphlan2_output_files_sam),
                    <<ArgInt(threads), ArgPath(metaphlan2_output_folder.value)>>,
                    <<3 * 60, 12 * 1024, threads>>)
        metaphlan2_merged_output ==
            NameOutputFile(Name(<<"taxonomic_profiles", "tsv">>), <<>>, <<>>, <<>>)
        join == AddTask(group.wf,
                    Metaphlan2JoinCommand,
                    metaphlan2_output_files_profile,
                    <<metaphlan2_merged_output>>,
                    <<ArgPath(metaphlan2_output_folder.value),
                      ArgStr(metaphlan2_profile_tag)>>)
    IN IF metaphlan2_output_folder.raised THEN Raised(wf)
       ELSE IF ~group.ok THEN Raised(wf)
       ELSE IF ~join.ok THEN Raised(group.wf)
       ELSE Returned(join.wf,
                <<metaphlan2_merged_output, metaphlan2_output_files_profile,
                  metaphlan2_output_files_sam>>)

\* --------------------------------------------------- functional_profile

Humann2Command ==
    <<"humann2", "--input", "[depends[0]]", "--output", "[args[0]]",
      "--threads", "[args[1]]">>

RegroupCommand ==
    <<"humann2_regroup_table", "--input", "[depends[0]]", "--output",
      "[targets[0]]", "--groups", "uniref90_level4ec">>

RenormCommand ==
    <<"humann2_renorm_table", "--input", "[depends[0]]", "--output",
      "[targets[0]]", "--units", "relab">>

Humann2JoinCommand ==
    <<"humann2_join_tables", "--input", "[args[0]]", "--output", "[targets[0]]">>

\* Variant: the profiles are never used.
TruthyNever(taxonomic_profiles) == FALSE

\* `if taxonomic_profiles:` -- neither None nor an empty list.
Truthy(taxonomic_profiles) ==
    taxonomic_profiles.given /\ Len(taxonomic_profiles.list) > 0

OptionalProfileArgs(taxonomic_profiles) ==
    IF Truthy(taxonomic_profiles)
    THEN <<"--taxonomic-profile", "[depends[1]]">>
    ELSE <<>>

\* depends=zip(input_files, taxonomic_profiles) or depends=input_files
Humann2Depends(input_files, taxonomic_profiles) ==
    IF Truthy(taxonomic_profiles)
    THEN Zip2(input_files, taxonomic_profiles.list)
    ELSE AsTuples(input_files)

\* Variant: pathcoverage declared in place of pathabundance.
Humann2TargetsCoverageTwice(genefamiles, pathabundance, pathcoverage) ==
    Zip3(genefamiles, pathcoverage, pathcoverage)

\* targets=zip(genefamiles, pathabundance, pathcoverage)
Humann2Targets(genefamiles, pathabundance, pathcoverage) ==
    Zip3(genefamiles, pathabundance, pathcoverage)

\* depends=genefamiles + ec_files + pathabundance
NormDepends(genefamiles, ec_files, pathabundance) ==
    genefamiles \o ec_files \o pathabundance

\* Variant: the normalized ec files declared in place of the normalized
\* pathway abundance files.
NormTargetsEcTwice(norm_genefamily_files, norm_ec_files, norm_pathabundance_files) ==
    norm_genefamily_files \o norm_ec_files \o norm_ec_files

\* targets=norm_genefamily_files + norm_ec_files + norm_pathabundance_files
NormTargets(norm_genefamily_files, norm_ec_files, norm_pathabundance_files) ==
    norm_genefamily_files \o norm_ec_files \o norm_pathabundance_files

\* Variant: the ec and pathway abundance batches exchanged.
AllDependsSwapped(norm_genefamily_files, norm_ec_files, norm_pathabundance_files) ==
    <<norm_genefamily_files, norm_pathabundance_files, norm_ec_files>>

\* all_depends=[norm_genefamily_files, norm_ec_files, norm_pathabundance_files]
AllDepends(norm_genefamily_files, norm_ec_files, norm_pathabundance_files) ==
    <<norm_genefamily_files, norm_ec_files, norm_pathabundance_files>>

\* The loop over zip(all_depends, all_targets): one add_task per pair, the
\* first failure ending the loop with the earlier tasks registered.
RECURSIVE JoinLoop(_, _)
JoinLoop(wf, pairs) ==
    IF Len(pairs) = 0 THEN [ok |-> TRUE, wf |-> wf]
    ELSE LET depends == pairs[1][1]
             targets == pairs[1][2]
             folder == DirnameOfFirst(depends)
             task == AddTask(wf, Humann2JoinCommand, depends, <<targets>>,
                             <<ArgPath(folder.value)>>)
         IN IF folder.raised THEN [ok |-> FALSE, wf |-> wf]
            ELSE IF ~task.ok THEN [ok |-> FALSE, wf |-> wf]
            ELSE JoinLoop(task.wf, Tail(pairs))

FunctionalProfile(wf, input_files, threads, taxonomic_profiles) ==
    LET genefamiles ==
            NameOutputFiles(input_files, <<"genefamilies">>, <<"humann2">>, <<"tsv">>)
        pathabundance ==
            NameOutputFiles(input_files, <<"pathabundance">>, <<"humann2">>, <<"tsv">>)
        pathcoverage ==
            NameOutputFiles(input_files, <<"pathcoverage">>, <<"humann2">>, <<"tsv">>)
        humann2_output_folder == DirnameOfFirst(genefamiles)
        humann2 == AddTaskGroupGridable(wf,
                    Humann2Command \o OptionalProfileArgs(taxonomic_profiles),
                    Humann2Depends(input_files, taxonomic_profiles),
                    Humann2Targets(genefamiles, pathabundance, pathcoverage),
                    <<ArgPath(humann2_output_folder.value), ArgInt(threads)>>,
                    <<24 * 60, 36 * 1024, threads>>)
        ec_files == NameOutputFiles(genefamiles, <<"ecs">>, <<"humann2">>, <<>>)
        regroup == AddTaskGroupGridable(humann2.wf,
                    RegroupCommand,
                    AsTuples(genefamiles),
                    AsTuples(ec_files),
                    <<>>,
                    <<10 * 60, 5 * 1024, 1>>)
        norm_genefamily_files ==
            NameOutputFiles(genefamiles, <<"relab">>, <<"genes">>, <<>>)
        norm_ec_files == NameOutputFiles(ec_files, <<"relab">>, <<"ecs">>, <<>>)
        norm_pathabundance_files ==
            NameOutputFiles(pathabundance, <<"relab">>, <<"pathways">>, <<>>)
        norm == AddTaskGroupGridable(regroup.wf,
                    RenormCommand,
                    AsTuples(NormDepends(genefamiles, ec_files, pathabundance)),
                    AsTuples(NormTargets(norm_genefamily_files, norm_ec_files,
                                         norm_pathabundance_files)),
                    <<>>,
                    <<5 * 60, 5 * 1024, 1>>)
        merged_genefamilies ==
            NameOutputFile(Name(<<"genefamilies_relab", "tsv">>), <<>>, <<>>, <<>>)
        merged_ecs ==
            NameOutputFile(Name(<<"ecs_relab", "tsv">>), <<>>, <<>>, <<>>)
        merged_pathabundance ==
            NameOutputFile(Name(<<"pathabundance_relab", "tsv">>), <<>>, <<>>, <<>>)
        all_depends == AllDepends(norm_genefamily_files, norm_ec_files,
                                  norm_pathabundance_files)
        all_targets == <<merged_genefamilies, merged_ecs, merged_pathabundance>>
        joins == JoinLoop(norm.wf, Zip2(all_depends, all_targets))
    IN IF humann2_output_folder.raised THEN Raised(wf)
       ELSE IF ~humann2.ok THEN Raised(wf)
       ELSE IF ~regroup.ok THEN Raised(humann2.wf)
       ELSE IF ~norm.ok THEN Raised(regroup.wf)
       ELSE IF ~joins.ok THEN Raised(joins.wf)
       ELSE Returned(joins.wf,
                <<merged_genefamilies, merged_ecs, merged_pathabundance>>)

\* ------------------------------------------------------ the caller's steps

NoCall ==
    [fn |-> "none", input_files |-> <<>>, threads |-> 0,
     databases |-> [kind |-> "none", val |-> <<>>],
     taxonomic_profiles |-> NoProfiles]

NoOutcome == [status |-> "none", ret |-> <<>>]

NoLocals ==
    [input_files |-> <<>>, threads |-> 0, filtered_fastq |-> <<>>,
     profiles |-> <<>>]

Init ==
    /\ workflow = EmptyWorkflow
    /\ call = NoCall
    /\ outcome = NoOutcome
    /\ locals = NoLocals
    /\ pc = "session"
    /\ present = {}
    /\ ran = {}

\* A task the calling program registered itself before it calls a stage.
PriorTask ==
    [cmd |-> <<"fetch", "[targets[0]]">>, depends |-> <<>>,
     targets |-> <<SampleFile(1)>>, args |-> <<>>]

CallerAddTask ==
    /\ pc = "session"
    /\ outcome.status = "none"
    /\ Len(workflow.tasks) < MaxPrior
    /\ workflow' = AddTask(workflow, PriorTask.cmd, PriorTask.depends,
                           PriorTask.targets, PriorTask.args).wf
    /\ UNCHANGED <<call, outcome, locals, pc, present, ran>>

Finish(c, result) ==
    /\ call' = c
    /\ workflow' = result.wf
    /\ outcome' = [status |-> result.status, ret |-> result.ret]

CallQualityControl ==
    /\ pc = "session"
    /\ outcome.status = "none"
    /\ \E input_files \in SeqsUpTo(InputFileSet, MaxFiles),
          threads \in ThreadSet, databases \in DatabaseArgs :
          Finish([NoCall EXCEPT !.fn = "quality_control",
                                !.input_files = input_files,
                                !.threads = threads,
                                !.databases = databases],
                 QualityControl(workflow, input_files, threads, databases))
    /\ UNCHANGED <<locals, pc, present, ran>>

CallTaxonomicProfile ==
    /\ pc = "session"
    /\ outcome.status = "none"
    /\ \E input_files \in SeqsUpTo(InputFileSet, MaxFiles), threads \in ThreadSet :
          Finish([NoCall EXCEPT !.fn = "taxonomic_profile",
                                !.input_files = input_files,
                                !.threads = threads],
                 TaxonomicProfile(workflow, input_files, threads))
    /\ UNCHANGED <<locals, pc, present, ran>>

CallFunctionalProfile ==
    /\ pc = "session"
    /\ outcome.status = "none"
    /\ \E input_files \in SeqsUpTo(InputFileSet, MaxFiles),
          threads \in ThreadSet, taxonomic_profiles \in ProfileArgs :
          Finish([NoCall EXCEPT !.fn = "functional_profile",
                                !.input_files = input_files,
                                !.threads = threads,
                                !.taxonomic_profiles = taxonomic_profiles],
                 FunctionalProfile(workflow, input_files, threads,
                                   taxonomic_profiles))
    /\ UNCHANGED <<locals, pc, present, ran>>

Next ==
    \/ CallerAddTask
    \/ CallQualityControl
    \/ CallTaxonomicProfile
    \/ CallFunctionalProfile

Spec == Init /\ [][Next]_vars

\* ------------------------------------------- the chained pipeline, executed

\* The program of the docstring examples: quality control of the input
\* files, taxonomic profiling of the filtered files, functional profiling
\* of the filtered files with the per-sample profiles, then workflow.go().
ChainInit ==
    /\ workflow = EmptyWorkflow
    /\ call = NoCall
    /\ outcome = NoOutcome
    /\ \E n \in 1..Min(MaxChain, Len(SampleNames)), threads \in ThreadSet :
          locals = [NoLocals EXCEPT !.input_files = [i \in 1..n |-> SampleFile(i)],
                                    !.threads = threads]
    /\ pc = "start"
    /\ present = {}
    /\ ran = {}

ChainQualityControl ==
    /\ pc = "start"
    /\ LET c == [NoCall EXCEPT !.fn = "quality_control",
                               !.input_files = locals.input_files,
                               !.threads = locals.threads]
           result == QualityControl(workflow, c.input_files, c.threads, c.databases)
       IN /\ Finish(c, result)
          /\ IF result.status = "returned"
             THEN /\ pc' = "filtered"
                  /\ locals' = [locals EXCEPT !.filtered_fastq = result.ret[1]]
             ELSE /\ pc' = "failed"
                  /\ UNCHANGED locals
    /\ UNCHANGED <<present, ran>>

ChainTaxonomicProfile ==
    /\ pc = "filtered"
    /\ LET c == [NoCall EXCEPT !.fn = "taxonomic_profile",
                               !.input_files = locals.filtered_fastq,
                               !.threads = locals.threads]
           result == TaxonomicProfile(workflow, c.input_files, c.threads)
       IN /\ Finish(c, result)
          /\ IF result.status = "returned"
             THEN /\ pc' = "profiled"
                  /\ locals' = [locals EXCEPT !.profiles = result.ret[2]]
             ELSE /\ pc' = "failed"
                  /\ UNCHANGED locals
    /\ UNCHANGED <<present, ran>>

ChainFunctionalProfile ==
    /\ pc = "profiled"
    /\ LET c == [NoCall EXCEPT !.fn = "functional_profile",
                               !.input_files = locals.filtered_fastq,
                               !.threads = locals.threads,
                               !.taxonomic_profiles =
                                   [given |-> TRUE, list |-> locals.profiles]]
           result == FunctionalProfile(workflow, c.input_files, c.threads,
                                       c.taxonomic_profiles)
       IN /\ Finish(c, result)
          /\ pc' = IF result.status = "returned" THEN "built" ELSE "failed"
    /\ UNCHANGED <<locals, present, ran>>

\* workflow.go(): only the original input files exist.
Go ==
    /\ pc = "built"
    /\ pc' = "run"
    /\ present' = Range(locals.input_files)
    /\ UNCHANGED <<workflow, call, outcome, locals, ran>>

\* The executor runs a task once all of its dependencies exist; the task
\* produces its targets.
RunTask(i) ==
    /\ pc = "run"
    /\ i \notin ran
    /\ Range(workflow.tasks[i].depends) \subseteq present
    /\ present' = present \cup Range(workflow.tasks[i].targets)
    /\ ran' = ran \cup {i}
    /\ UNCHANGED <<workflow, call, outcome, locals, pc>>

RunSomeTask == \E i \in DOMAIN workflow.tasks : RunTask(i)

ChainNext ==
    \/ ChainQualityControl
    \/ ChainTaxonomicProfile
    \/ ChainFunctionalProfile
    \/ Go
    \/ RunSomeTask

FairSpec == ChainInit /\ [][ChainNext]_vars /\ WF_vars(ChainNext)

\* C10: in the chained pipeline the executor eventually runs every
\* registered task.
C10_EveryTaskEventuallyRuns ==
    <>(pc = "run" /\ ran = DOMAIN workflow.tasks)

\* ------------------------------------------------------------ the claims

\* The number of tasks the caller registered before the stage was called.
NPrior ==
    Cardinality({i \in DOMAIN workflow.tasks : workflow.tasks[i].cmd = PriorTask.cmd})

NInput == Len(call.input_files)

Task(i) == workflow.tasks[NPrior + i]

NStageTasks == Len(workflow.tasks) - NPrior

Last(s) == s[Len(s)]

Called(fn) == call.fn = fn

ReturnedFrom(fn) == call.fn = fn /\ outcome.status = "returned"

ProfilesSupplied ==
    call.taxonomic_profiles.given /\ call.taxonomic_profiles.list # <<>>

\* C1: the kneaddata command registered by quality_control holds exactly
\* one --reference-db clause per database supplied (none for no database,
\* one for a single name, N for a list of N >= 0 names), each clause
\* followed by its own database, in the order supplied.
C1_OneReferenceDbClausePerDatabase ==
    ReturnedFrom("quality_control") =>
        LET cmd == Last(workflow.groups).cmd
            dbs == call.databases.val
            clauses == {i \in DOMAIN cmd : cmd[i] = "--reference-db"}
        IN /\ Cardinality(clauses) = Len(dbs)
           /\ SubSeq(cmd, Len(KneaddataCommand) + 1, Len(cmd)) =
                 [k \in 1..(2 * Len(dbs)) |->
                     IF k % 2 = 1 THEN "--reference-db" ELSE dbs[k \div 2]]

\* C2: every registered task group has as many dependency entries as
\* target entries, and functional_profile called with a list of taxonomic
\* profiles (at least one: an empty list is no profiles at all) whose
\* length differs from that of input_files fails during construction and
\* registers no humann2 task group, so none with a truncated or padded
\* dependency batch.
C2_MismatchedProfilesFail ==
    /\ \A g \in DOMAIN workflow.groups :
          workflow.groups[g].ndepends = workflow.groups[g].ntargets
    /\ (/\ Called("functional_profile")
        /\ ProfilesSupplied
        /\ Len(call.taxonomic_profiles.list) # NInput)
       => /\ outcome.status = "raised"
          /\ \A g \in DOMAIN workflow.groups :
                workflow.groups[g].cmd[1] # "humann2"

MergedNames == <<"genefamilies_relab", "ecs_relab", "pathabundance_relab">>

\* The per-sample file of kind k (gene families, ecs, pathway abundance)
\* of sample i, as the humann2 and regroup tasks declare it.
KindFile(k, i) ==
    CASE k = 1 -> Task(i).targets[1]
      [] k = 2 -> Task(NInput + i).targets[1]
      [] OTHER -> Task(i).targets[2]

\* C3: functional_profile with N >= 1 input files and no taxonomic
\* profiles registers exactly three join tasks, with targets
\* genefamilies_relab.tsv, ecs_relab.tsv and pathabundance_relab.tsv, the
\* dependencies of each being the N normalized per-sample files of its own
\* kind, one per input file.
C3_ThreeJoinsOverOwnKind ==
    (Called("functional_profile") /\ NInput >= 1 /\ ~call.taxonomic_profiles.given)
    => /\ outcome.status = "returned"
       /\ NStageTasks = 5 * NInput + 3
       /\ Cardinality({t \in 1..NStageTasks : Task(t).group = 0}) = 3
       /\ \A k \in 1..3 :
             LET join == Task(5 * NInput + k)
             IN /\ join.group = 0
                /\ join.cmd[1] = "humann2_join_tables"
                /\ join.targets =
                      <<[dir |-> <<OutputRoot>>, base |-> <<MergedNames[k], "tsv">>]>>
                /\ Len(join.depends) = NInput
                /\ \A i \in 1..NInput :
                      LET norm == Task(2 * NInput + (k - 1) * NInput + i)
                      IN /\ join.depends[i] = norm.targets[1]
                         /\ norm.cmd[1] = "humann2_renorm_table"
                         /\ norm.depends = <<KindFile(k, i)>>
                         /\ Task(i).depends = <<call.input_files[i]>>
                         /\ Task(NInput + i).depends = <<Task(i).targets[1]>>

C3_Witness ==
    /\ ReturnedFrom("functional_profile")
    /\ ~call.taxonomic_profiles.given
    /\ NInput = 2
    /\ call.input_files[1] # call.input_files[2]
    /\ NPrior = 1
    /\ NStageTasks = 13

\* C4: taxonomic_profile with N >= 1 input files registers one task group
\* of N tasks, task i with input file i as dependency and its (profile,
\* alignment) pair as targets, then exactly one join task whose target is
\* taxonomic_profiles.tsv and whose dependencies are the N profile targets
\* of the group and none of the alignment targets.
C4_GroupThenOneJoin ==
    (Called("taxonomic_profile") /\ NInput >= 1)
    => /\ outcome.status = "returned"
       /\ Len(workflow.groups) = 1
       /\ workflow.groups[1].ndepends = NInput
       /\ workflow.groups[1].ntargets = NInput
       /\ NStageTasks = NInput + 1
       /\ \A i \in 1..NInput :
             /\ Task(i).group = 1
             /\ Task(i).depends = <<call.input_files[i]>>
             /\ Len(Task(i).targets) = 2
             /\ Task(i).targets[1].base =
                   call.input_files[i].base \o <<"taxonomic_profile", "tsv">>
             /\ Task(i).targets[2].base =
                   call.input_files[i].base \o <<"bowtie2", "sam">>
       /\ LET join == Task(NInput + 1)
          IN /\ join.group = 0
             /\ join.targets =
                   <<[dir |-> <<OutputRoot>>, base |-> <<"taxonomic_profiles", "tsv">>]>>
             /\ join.depends = [i \in 1..NInput |-> Task(i).targets[1]]
             /\ \A i \in 1..NInput : Task(i).targets[2] \notin Range(join.depends)

C4_Witness ==
    /\ ReturnedFrom("taxonomic_profile")
    /\ NInput = 2
    /\ call.input_files[1] # call.input_files[2]
    /\ NPrior = 1
    /\ Len(Task(3).depends) = 2

C6_OneKneaddataGroup ==
    (Called("quality_control") /\ NInput >= 1)
    => /\ outcome.status = "returned"
       /\ Len(workflow.groups) = 1
       /\ workflow.groups[1].ndepends = NInput
       /\ workflow.groups[1].res = <<360, 12288, call.threads>>
       /\ NStageTasks = NInput
       /\ \A i \in 1..NInput :
             /\ Task(i).group = 1
             /\ Task(i).cmd[1] = "kneaddata"
             /\ Task(i).depends = <<call.input_files[i]>>
             /\ Task(i).targets =
                   <<[dir |-> <<OutputRoot, "kneaddata">>,
                      base |-> call.input_files[i].base \o <<"kneaddata">>]>>
             /\ Task(i).res = <<360, 12288, call.threads>>
       /\ outcome.ret = <<[i \in 1..NInput |-> Task(i).targets[1]]>>

C6_Witness ==
    /\ ReturnedFrom("quality_control")
    /\ NInput = 2
    /\ call.input_files = <<SampleFile(1), SampleFile(2)>>
    /\ call.threads = 4
    /\ NPrior = 1
    /\ Task(2).targets[1].base = <<"s2", "fastq", "kneaddata">>

\* C7: taxonomic_profile returns exactly two values, the merged taxonomic
\* profile file and the list of sam files, so that the result unpacks into
\* two names.
C7_ReturnsProfileAndSams ==
    ReturnedFrom("taxonomic_profile") =>
        /\ Len(outcome.ret) = 2
        /\ outcome.ret[1] = Task(NInput + 1).targets[1]
        /\ outcome.ret[2] = [i \in 1..NInput |-> Task(i).targets[2]]

\* C8: in functional_profile every dependency of the regroup group, the
\* normalize group and the three join tasks is an identifier that a task
\* registered earlier in the same call declared as a target; only the
\* humann2 group depends on identifiers supplied by the caller.
C8_DependenciesAreEarlierTargets ==
    (Called("functional_profile") /\ NInput >= 1) =>
        \A t \in 1..NStageTasks :
            IF Task(t).cmd[1] = "humann2"
            THEN Range(Task(t).depends) \subseteq
                    Range(call.input_files) \cup Range(call.taxonomic_profiles.list)
            ELSE \A d \in Range(Task(t).depends) :
                    \E u \in 1..(t - 1) : d \in Range(Task(u).targets)

C8_Witness ==
    /\ ReturnedFrom("functional_profile")
    /\ NInput = 2
    /\ NPrior = 1
    /\ NStageTasks = 13
    /\ Task(13).depends # <<>>
    /\ Task(5).cmd[1] = "humann2_renorm_table"

\* C9: each stage function called with an empty input_files list raises
\* during assembly, leaving the workflow's tasks and task groups as they
\* were before the call.
C9_EmptyInputRaisesBeforeRegistering ==
    [][(call.fn = "none" /\ call'.fn # "none" /\ call'.input_files = <<>>)
        => (outcome'.status = "raised" /\ workflow' = workflow)]_vars

C9_Witness ==
    /\ Called("quality_control")
    /\ call.input_files = <<>>
    /\ outcome.status = "raised"
    /\ Len(workflow.tasks) = 1
    /\ workflow.groups = <<>>

C10_Witness ==
    /\ pc = "run"
    /\ ran = DOMAIN workflow.tasks
    /\ Len(locals.input_files) = 2
    /\ Len(workflow.tasks) = 18
    /\ Cardinality(present) = 2 + 2 + 4 + 1 + 6 + 2 + 6 + 3

====
